---- MODULE Spec2Model ----
(***************************************************************************)
(* Model of the sandboxed code-execution subsystem of the runner crate:    *)
(*   crates/runner/src/parser.rs  parse_cargo_output and its helpers       *)
(*   crates/runner/src/docker.rs  DockerRunner::run_verification           *)
(*   crates/runner/src/pool.rs    ContainerPool                            *)
(*   crates/runner/src/types.rs   VerificationResult and its constructors  *)
(*                                                                         *)
(* Text that the code inspects character by character (stderr) is a        *)
(* sequence of one-character strings.  stdout is a sequence of lines; a    *)
(* line is a record that says what `trim`, `starts_with('{')` and          *)
(* `serde_json::from_str::<CargoMessage>` make of it.  Option<T> is the    *)
(* empty sequence (None) or a one-element sequence (Some).  Durations are  *)
(* not modelled: duration_ms is left out of VerificationResult.            *)
(***************************************************************************)
EXTENDS Integers, Sequences, FiniteSets, TLC

VARIABLES
  \* ---- parse_cargo_output applied to drawn inputs (SpecParse) ----
  p_pc,        \* "input" before the call, "done" after it
  p_output,    \* the `output` argument (stdout of the container)
  p_stderr,    \* the `stderr` argument
  p_result,    \* what the call produced (a result, or an abort)
  \* ---- one run_verification call (Spec) ----
  pc,          \* position of the run inside run_verification/run_container
  calls,       \* engine calls issued so far, in order
  container,   \* engine-side state of this run's container
  exit_code,   \* Option: status code read from the wait stream
  logs,        \* Option: the (stdout, stderr) collected from the log stream
  timed_out,   \* where the deadline elapsed: "no", "wait" or "logs"
  result,      \* Option: the value run_container produced
  ret,         \* what run_verification returned (tag "Pending" until then)
  work_dir,    \* the tempdir of the run: "none", "exists", "removed", or
               \* "left" (dropped, but its removal failed and it is still there)
  \* ---- the ContainerPool under concurrent callers (SpecPool) ----
  max_size,    \* ContainerPool::max_size
  idle,        \* ContainerPool::idle (front of the VecDeque first)
  lock,        \* holder of the tokio Mutex around idle, 0 when free
  call,        \* per caller: the pending call, or tag "none"
  res,         \* per caller: outcome of its last completed call
  accepted,    \* history: handles pushed to the queue, in order
  handed,      \* history: handles taken from the queue, in order
  returns_run, \* return_container calls completed since the last get/drain
  ops,         \* number of calls issued so far
  \* ---- one cleanup_orphaned_containers call (SpecSweep) ----
  s_pc,        \* "start", "loop", "removing" or "done"
  s_engine,    \* the engine's containers: id -> label, creation time, presence
  s_now,       \* the clock (seconds), as chrono::Utc::now().timestamp() reads it
  s_list,      \* `containers`: the summaries list_containers answered
  s_i,         \* position of the `for` loop in s_list (1-based)
  s_attempts,  \* remove_container calls issued so far, in order
  s_cleaned,   \* `cleaned`
  s_ret,       \* what the call returned (tag "Pending" until then)
  \* ---- a run and a sweep side by side (SpecRace) ----
  deadline     \* Option: the time at which the run's Timeout future fires

parse_vars == << p_pc, p_output, p_stderr, p_result >>
run_vars   == << pc, calls, container, exit_code, logs, timed_out, result, ret, work_dir >>
pool_vars  == << max_size, idle, lock, call, res, accepted, handed, returns_run, ops >>
sweep_vars == << s_pc, s_engine, s_now, s_list, s_i, s_attempts, s_cleaned, s_ret >>
race_vars  == << deadline >>
vars       == << parse_vars, run_vars, pool_vars, sweep_vars, race_vars >>

(***************************************************************************)
(* Bounds of the model.                                                    *)
(***************************************************************************)
MaxLines == 2       \* stdout has at most this many lines
MaxFrags == 2       \* stderr is made of at most this many signatures
MaxTail == 3        \* ... or of a panic marker and at most this many characters
MaxCount == 2       \* largest count a suite summary line carries
MaxPoolSize == 2    \* max_size ranges over 0..MaxPoolSize
MaxOps == 5         \* pool calls issued in one behaviour
NumCallers == 2     \* tasks that call the pool concurrently
NumContainers == 2  \* containers the engine holds when a sweep starts
MaxTicks == 1       \* seconds that pass while a sweep runs

None == << >>
Some(v) == << v >>
IsSome(o) == o # << >>
Unwrap(o) == o[1]

(***************************************************************************)
(* Strings as character sequences (stderr).                                *)
(***************************************************************************)
PanickedAt ==
  << "p", "a", "n", "i", "c", "k", "e", "d", " ", "a", "t" >>
TimeoutMark ==
  << "t", "i", "m", "e", "o", "u", "t" >>
SigkillMark ==
  << "S", "I", "G", "K", "I", "L", "L" >>
OutOfMemoryMark ==
  << "o", "u", "t", " ", "o", "f", " ", "m", "e", "m", "o", "r", "y" >>
MemoryAllocationMark ==
  << "m", "e", "m", "o", "r", "y", " ", "a", "l", "l", "o", "c", "a", "t", "i", "o", "n" >>
CannotAllocateMark ==
  << "C", "a", "n", "n", "o", "t", " ", "a", "l", "l", "o", "c", "a", "t", "e", " ", "m", "e", "m", "o", "r", "y" >>
OOMKilledMark ==
  << "O", "O", "M", "K", "i", "l", "l", "e", "d" >>
PidsLimitMark ==
  << "p", "i", "d", "s", " ", "l", "i", "m", "i", "t" >>
ForkUnavailableMark ==
  << "f", "o", "r", "k", ":", " ", "R", "e", "s", "o", "u", "r", "c", "e", " ",
     "t", "e", "m", "p", "o", "r", "a", "r", "i", "l", "y", " ",
     "u", "n", "a", "v", "a", "i", "l", "a", "b", "l", "e" >>
UnknownPanic ==
  << "U", "n", "k", "n", "o", "w", "n", " ", "p", "a", "n", "i", "c" >>
Quote == "'"
Newline == "\n"

\* str::contains(pat)
Contains(s, pat) ==
  \E i \in 1..(Len(s) - Len(pat) + 1) : SubSeq(s, i, i + Len(pat) - 1) = pat

\* str::find(pat): Option of the byte offset (0-based) of the first match
Find(s, pat) ==
  LET hits == { i \in 1..(Len(s) - Len(pat) + 1) : SubSeq(s, i, i + Len(pat) - 1) = pat }
  IN  IF hits = {} THEN None
      ELSE Some((CHOOSE i \in hits : \A j \in hits : i <= j) - 1)

\* &s[from..]: the slice from byte offset `from` (0-based) to the end
SliceFrom(s, from) == SubSeq(s, from + 1, Len(s))
\* &s[..to]: the slice up to byte offset `to` (exclusive)
SliceTo(s, to) == SubSeq(s, 1, to)

IsWhitespace(c) == c \in {" ", "\t", "\n", "\r"}

RECURSIVE TrimStart(_)
TrimStart(s) ==
  IF s # << >> /\ IsWhitespace(Head(s)) THEN TrimStart(Tail(s)) ELSE s

RECURSIVE TrimEnd(_)
TrimEnd(s) ==
  IF s # << >> /\ IsWhitespace(s[Len(s)]) THEN TrimEnd(SubSeq(s, 1, Len(s) - 1)) ELSE s

\* str::trim
Trim(s) == TrimEnd(TrimStart(s))

\* str::lines: split at "\n", drop a "\r" that ends a line, no final empty line
StripCR(l) == IF l # << >> /\ l[Len(l)] = "\r" THEN SubSeq(l, 1, Len(l) - 1) ELSE l

RECURSIVE Lines(_)
Lines(s) ==
  LET nl == Find(s, << Newline >>)
  IN  IF s = << >> THEN << >>
      ELSE IF nl = None THEN << StripCR(s) >>
      ELSE << StripCR(SliceTo(s, Unwrap(nl))) >> \o Lines(SliceFrom(s, Unwrap(nl) + 1))

(***************************************************************************)
(* types.rs: VerificationResult and its constructors.                      *)
(***************************************************************************)
VerificationResult_success(tests_passed, tests_total) ==
  [ success |-> TRUE, stdout |-> << >>, stderr |-> << >>,
    tests_passed |-> tests_passed, tests_failed |-> 0, tests_total |-> tests_total,
    compile_error |-> None, runtime_error |-> None, resource_limit_hit |-> None ]

VerificationResult_failure(tests_passed, tests_failed, tests_total) ==
  [ success |-> FALSE, stdout |-> << >>, stderr |-> << >>,
    tests_passed |-> tests_passed, tests_failed |-> tests_failed, tests_total |-> tests_total,
    compile_error |-> None, runtime_error |-> None, resource_limit_hit |-> None ]

VerificationResult_compile_error(error) ==
  [ success |-> FALSE, stdout |-> << >>, stderr |-> << >>,
    tests_passed |-> 0, tests_failed |-> 0, tests_total |-> 0,
    compile_error |-> Some(error), runtime_error |-> None, resource_limit_hit |-> None ]

VerificationResult_runtime_error(error) ==
  [ success |-> FALSE, stdout |-> << >>, stderr |-> << >>,
    tests_passed |-> 0, tests_failed |-> 0, tests_total |-> 0,
    compile_error |-> None, runtime_error |-> Some(error), resource_limit_hit |-> None ]

with_output(self, stdout, stderr) ==
  [ self EXCEPT !.stdout = stdout, !.stderr = stderr ]

RuntimeError_Timeout == [ tag |-> "Timeout" ]
RuntimeError_Panic(message) == [ tag |-> "Panic", message |-> message ]
RuntimeError_OutOfMemory == [ tag |-> "OutOfMemory" ]
ResourceLimit_Memory == "Memory"
ResourceLimit_ProcessCount == "ProcessCount"

(***************************************************************************)
(* parser.rs: stderr signatures.  A call that panics (slice index out of   *)
(* range) yields [aborted |-> TRUE] and no value.                          *)
(***************************************************************************)
\* `start + 12` of `&line[start + 12..]`
PanicSkip == 12

\* the first line that contains the marker decides
RECURSIVE extract_panic_message_lines(_)
extract_panic_message_lines(lines) ==
  IF lines = << >> THEN [ aborted |-> FALSE, message |-> UnknownPanic ]
  ELSE
    LET line  == Head(lines)
        start == Find(line, PanickedAt)
    IN  IF Contains(line, PanickedAt) /\ IsSome(start)
        THEN IF Unwrap(start) + PanicSkip > Len(line)
             THEN [ aborted |-> TRUE ]
             ELSE
               LET after_panicked == SliceFrom(line, Unwrap(start) + PanicSkip)
                   quote_start    == Find(after_panicked, << Quote >>)
                   rest           == SliceFrom(after_panicked, Unwrap(quote_start) + 1)
                   quote_end      == Find(rest, << Quote >>)
               IN  IF IsSome(quote_start) /\ IsSome(quote_end)
                   THEN [ aborted |-> FALSE, message |-> SliceTo(rest, Unwrap(quote_end)) ]
                   ELSE [ aborted |-> FALSE, message |-> Trim(after_panicked) ]
        ELSE extract_panic_message_lines(Tail(lines))

extract_panic_message(stderr) == extract_panic_message_lines(Lines(stderr))

HasTimeoutSignature(stderr) ==
  Contains(stderr, TimeoutMark) \/ Contains(stderr, SigkillMark)

HasOomSignature(stderr) ==
  \/ Contains(stderr, OutOfMemoryMark)
  \/ Contains(stderr, MemoryAllocationMark)
  \/ Contains(stderr, CannotAllocateMark)

detect_runtime_error(stderr) ==
  IF Contains(stderr, PanickedAt)
  THEN LET m == extract_panic_message(stderr)
       IN  IF m.aborted THEN [ aborted |-> TRUE ]
           ELSE [ aborted |-> FALSE, value |-> Some(RuntimeError_Panic(m.message)) ]
  ELSE IF HasTimeoutSignature(stderr)
  THEN [ aborted |-> FALSE, value |-> Some(RuntimeError_Timeout) ]
  ELSE IF HasOomSignature(stderr)
  THEN [ aborted |-> FALSE, value |-> Some(RuntimeError_OutOfMemory) ]
  ELSE [ aborted |-> FALSE, value |-> None ]

detect_resource_limit(stderr) ==
  IF \/ Contains(stderr, OOMKilledMark)
     \/ Contains(stderr, OutOfMemoryMark)
     \/ Contains(stderr, CannotAllocateMark)
  THEN Some(ResourceLimit_Memory)
  ELSE IF Contains(stderr, PidsLimitMark) \/ Contains(stderr, ForkUnavailableMark)
  THEN Some(ResourceLimit_ProcessCount)
  ELSE None

(***************************************************************************)
(* parser.rs: the lines of stdout.  kind says what the loop makes of the   *)
(* line: "blank" is empty after trim; "text" does not start with '{'       *)
(* (text: its characters without surrounding whitespace; pad: the line has *)
(* a space before and after them); "badjson" starts with '{' and does not  *)
(* deserialize to a CargoMessage; the other kinds are the CargoMessage     *)
(* variants.                                                               *)
(***************************************************************************)
BlankLine == [ kind |-> "blank" ]
TextLine(pad, text) == [ kind |-> "text", pad |-> pad, text |-> text ]
BadJsonLine == [ kind |-> "badjson" ]
UnknownLine == [ kind |-> "unknown" ]
DiagnosticSpan(file_name, line_start, column_start) ==
  [ file_name |-> file_name, line_start |-> line_start, column_start |-> column_start ]
CompilerMessageLine(level, message, spans) ==
  [ kind |-> "compiler-message", level |-> level, message |-> message, spans |-> spans ]
BuildFinishedLine(success) == [ kind |-> "build-finished", success |-> success ]
TestLine(event) == [ kind |-> "test", event |-> event ]
SuiteLine(event, passed, failed) ==
  [ kind |-> "suite", event |-> event, passed |-> passed, failed |-> failed ]

\* line.trim().is_empty()
IsEmptyAfterTrim(l) == l.kind = "blank"
\* line.trim().starts_with('{')
StartsWithBrace(l) == l.kind \notin {"blank", "text"}
\* serde_json::from_str::<CargoMessage>(line).is_ok()
Deserializes(l) == l.kind \in {"compiler-message", "build-finished", "test", "suite", "unknown"}
\* the characters of a line that is not a CargoMessage, as they stand in
\* stdout ("{" is the shortest line that starts with '{' and is not JSON)
RawText(l) ==
  IF l.kind = "text" THEN (IF l.pad THEN << " " >> \o l.text \o << " " >> ELSE l.text)
  ELSE IF l.kind = "badjson" THEN << "{" >>
  ELSE << >>
\* line.trim().to_string() of a text line
TrimmedText(l) == Trim(RawText(l))

\* spans.first().and_then(|s| s.<field>)
FirstSpanField(spans, field) ==
  IF spans = << >> THEN None ELSE spans[1][field]

CompileError(message, line, column, file) ==
  [ message |-> message, line |-> line, column |-> column, file |-> file ]

ScanInit ==
  [ tests_passed |-> 0, tests_failed |-> 0, compile_error |-> None,
    build_success |-> TRUE, stdout_lines |-> << >> ]

\* mutant of ScanLine: a JSON line of an unknown reason is kept as text in
\* stdout_lines instead of being ignored
ScanLine_UnknownKept(st, l) ==
  IF IsEmptyAfterTrim(l) \/ ~StartsWithBrace(l)
  THEN IF ~IsEmptyAfterTrim(l)
       THEN [ st EXCEPT !.stdout_lines = Append(@, TrimmedText(l)) ]
       ELSE st
  ELSE IF ~Deserializes(l) THEN st
  ELSE IF l.kind = "compiler-message"
  THEN IF l.level = "error"
       THEN [ st EXCEPT !.compile_error =
                Some(CompileError(l.message,
                                  FirstSpanField(l.spans, "line_start"),
                                  FirstSpanField(l.spans, "column_start"),
                                  FirstSpanField(l.spans, "file_name"))) ]
       ELSE st
  ELSE IF l.kind = "build-finished"
  THEN [ st EXCEPT !.build_success = l.success ]
  ELSE IF l.kind = "test"
  THEN IF l.event = "ok" THEN [ st EXCEPT !.tests_passed = @ + 1 ]
       ELSE IF l.event = "failed" THEN [ st EXCEPT !.tests_failed = @ + 1 ]
       ELSE st
  ELSE IF l.kind = "suite"
  THEN IF l.event \in {"ok", "failed"}
       THEN [ st EXCEPT
                !.tests_passed = IF IsSome(l.passed) THEN Unwrap(l.passed) ELSE @,
                !.tests_failed = IF IsSome(l.failed) THEN Unwrap(l.failed) ELSE @ ]
       ELSE st
  ELSE [ st EXCEPT !.stdout_lines = Append(@, << "{", "}" >>) ]

\* one iteration of `for line in output.lines()`
ScanLine(st, l) ==
  IF IsEmptyAfterTrim(l) \/ ~StartsWithBrace(l)
  THEN IF ~IsEmptyAfterTrim(l)
       THEN [ st EXCEPT !.stdout_lines = Append(@, TrimmedText(l)) ]
       ELSE st
  ELSE IF ~Deserializes(l) THEN st
  ELSE IF l.kind = "compiler-message"
  THEN IF l.level = "error"
       THEN [ st EXCEPT !.compile_error =
                Some(CompileError(l.message,
                                  FirstSpanField(l.spans, "line_start"),
                                  FirstSpanField(l.spans, "column_start"),
                                  FirstSpanField(l.spans, "file_name"))) ]
       ELSE st
  ELSE IF l.kind = "build-finished"
  THEN [ st EXCEPT !.build_success = l.success ]
  ELSE IF l.kind = "test"
  THEN IF l.event = "ok" THEN [ st EXCEPT !.tests_passed = @ + 1 ]
       ELSE IF l.event = "failed" THEN [ st EXCEPT !.tests_failed = @ + 1 ]
       ELSE st
  ELSE IF l.kind = "suite"
  THEN IF l.event \in {"ok", "failed"}
       THEN [ st EXCEPT
                !.tests_passed = IF IsSome(l.passed) THEN Unwrap(l.passed) ELSE @,
                !.tests_failed = IF IsSome(l.failed) THEN Unwrap(l.failed) ELSE @ ]
       ELSE st
  ELSE st

RECURSIVE ScanLines(_, _)
ScanLines(st, output) ==
  IF output = << >> THEN st ELSE ScanLines(ScanLine(st, Head(output)), Tail(output))

\* mutant of SuccessVerdict: a run without a passed test counts as a success
SuccessVerdict_NoPassedCheck(build_success, tests_passed, tests_failed) ==
  build_success /\ tests_failed = 0

\* `build_success && tests_failed == 0 && tests_passed > 0`
SuccessVerdict(build_success, tests_passed, tests_failed) ==
  build_success /\ tests_failed = 0 /\ tests_passed > 0

Aborted == [ aborted |-> TRUE ]
Returned(value) == [ aborted |-> FALSE, value |-> value ]

parse_cargo_output(output, stderr) ==
  LET st             == ScanLines(ScanInit, output)
      runtime_error  == detect_runtime_error(stderr)
      resource_limit == detect_resource_limit(stderr)
      tests_total    == st.tests_passed + st.tests_failed
      success        == SuccessVerdict(st.build_success, st.tests_passed, st.tests_failed)
  IN  IF runtime_error.aborted THEN Aborted
      ELSE IF IsSome(st.compile_error)
      THEN Returned(with_output(VerificationResult_compile_error(Unwrap(st.compile_error)),
                                st.stdout_lines, stderr))
      ELSE IF IsSome(runtime_error.value)
      THEN Returned([ with_output(VerificationResult_runtime_error(Unwrap(runtime_error.value)),
                                  st.stdout_lines, stderr)
                      EXCEPT !.resource_limit_hit = resource_limit ])
      ELSE Returned([ (IF success
                       THEN VerificationResult_success(st.tests_passed, tests_total)
                       ELSE VerificationResult_failure(st.tests_passed, st.tests_failed, tests_total))
                      EXCEPT !.stdout = st.stdout_lines,
                             !.stderr = stderr,
                             !.resource_limit_hit = resource_limit ])

(***************************************************************************)
(* Inputs of the bounded model.                                            *)
(***************************************************************************)
RECURSIVE Concats(_, _)
\* every concatenation of at most n fragments
Concats(frags, n) ==
  IF n = 0 THEN { << >> }
  ELSE LET prev == Concats(frags, n - 1)
       IN  prev \cup { p \o f : p \in prev, f \in frags }

StderrFrags ==
  { PanickedAt, TimeoutMark, SigkillMark, OutOfMemoryMark, MemoryAllocationMark,
    CannotAllocateMark, OOMKilledMark, PidsLimitMark, ForkUnavailableMark }

TailFrags ==
  { << " " >>, << Quote >>, << "x" >>, << Newline >> }

\* the signatures in every order, and a panic marker followed by every short text
Stderrs ==
  Concats(StderrFrags, MaxFrags) \cup { PanickedAt \o t : t \in Concats(TailFrags, MaxTail) }

StdoutLineSet ==
  { TextLine(FALSE, << "R", "u", "n", "n", "i", "n", "g", " ", "u", "n", "i", "t", "t", "e", "s", "t", "s" >>),
    CompilerMessageLine("error", "expected semicolon",
                        << DiagnosticSpan(Some("src/lib.rs"), Some(10), Some(5)) >>),
    CompilerMessageLine("warning", "unused variable", << >>),
    BuildFinishedLine(TRUE),
    BuildFinishedLine(FALSE),
    TestLine("ok"),
    TestLine("failed") }
  \cup { SuiteLine("ok", Some(p), Some(0)) : p \in {0, MaxCount} }
  \cup { SuiteLine("failed", Some(MaxCount), Some(1)) }

RECURSIVE SeqsUpTo(_, _)
\* every sequence over S of length at most n
SeqsUpTo(S, n) ==
  IF n = 0 THEN { << >> }
  ELSE LET prev == SeqsUpTo(S, n - 1)
       IN  prev \cup { Append(q, x) : q \in prev, x \in S }

Stdouts == SeqsUpTo(StdoutLineSet, MaxLines)

(***************************************************************************)
(* SpecParse: parse_cargo_output applied to every drawn (stdout, stderr).  *)
(***************************************************************************)
NotCalled == [ aborted |-> FALSE, value |-> "not called" ]

RunQuiet ==
  /\ pc = "init" /\ calls = << >> /\ container = "absent" /\ exit_code = None
  /\ logs = None /\ timed_out = "no" /\ result = None /\ ret = [ tag |-> "Pending" ]
  /\ work_dir = "none"

PoolQuiet ==
  /\ max_size = 0 /\ idle = << >> /\ lock = 0 /\ call = << >> /\ res = << >>
  /\ accepted = << >> /\ handed = << >> /\ returns_run = 0 /\ ops = 0

SweepQuiet ==
  /\ s_pc = "start" /\ s_engine = << >> /\ s_now = 0 /\ s_list = << >> /\ s_i = 1
  /\ s_attempts = << >> /\ s_cleaned = 0 /\ s_ret = [ tag |-> "Pending" ]

RaceQuiet == deadline = None

ParseInit ==
  /\ p_pc = "input"
  /\ p_output \in Stdouts
  /\ p_stderr \in Stderrs
  /\ p_result = NotCalled
  /\ RunQuiet
  /\ PoolQuiet
  /\ SweepQuiet
  /\ RaceQuiet

Parse ==
  /\ p_pc = "input"
  /\ p_result' = parse_cargo_output(p_output, p_stderr)
  /\ p_pc' = "done"
  /\ UNCHANGED << p_output, p_stderr, run_vars, pool_vars, sweep_vars, race_vars >>

ParseNext == Parse

SpecParse == ParseInit /\ [][ParseNext]_vars

(***************************************************************************)
(* SpecText: parse_cargo_output applied to stdouts made of the lines that  *)
(* are not CargoMessages of a known reason (blank, plain text with and     *)
(* without surrounding whitespace, '{' lines that are not JSON, JSON of an *)
(* unknown reason) among lines of every verdict class.                     *)
(***************************************************************************)
CompilingText == << "C", "o", "m", "p", "i", "l", "i", "n", "g", " ", "f", "o", "o" >>

TextLineSet ==
  { BlankLine,
    TextLine(FALSE, CompilingText),
    TextLine(TRUE, CompilingText),
    BadJsonLine,
    UnknownLine,
    CompilerMessageLine("error", "expected semicolon", << >>),
    CompilerMessageLine("error", "mismatched types",
                        << DiagnosticSpan(Some("src/main.rs"), Some(3), Some(1)) >>),
    BuildFinishedLine(TRUE),
    TestLine("ok") }

TextStdouts == SeqsUpTo(TextLineSet, MaxLines)

\* no signature, an out-of-memory signature, a panic with a quoted message
TextStderrs ==
  { << >>, OutOfMemoryMark, PanickedAt \o << " ", Quote, "x", Quote >> }

TextInit ==
  /\ p_pc = "input"
  /\ p_output \in TextStdouts
  /\ p_stderr \in TextStderrs
  /\ p_result = NotCalled
  /\ RunQuiet
  /\ PoolQuiet
  /\ SweepQuiet
  /\ RaceQuiet

SpecText == TextInit /\ [][ParseNext]_vars

(***************************************************************************)
(* docker.rs: one call of DockerRunner::run_verification.  An action is    *)
(* the code between two await points; what the engine (and the file        *)
(* system) answers is chosen with \E.  pc:                                 *)
(*   "init" -> "create" -> "start" -> "wait" -> "logs" -> "cleanup"        *)
(*   "wait"/"logs" -> "kill" -> "cleanup" when the deadline elapses,       *)
(*   "cleanup" -> "returned"; "panicked" when the call unwinds.            *)
(***************************************************************************)
\* `exit_code == 137`
OomExitCode == 137

ExitCodes == {0, 1, 101, OomExitCode}

\* the logs a container of the bounded model produces
RunStdouts == SeqsUpTo(StdoutLineSet, 1)
RunStderrs == Concats(StderrFrags, 1) \cup { PanickedAt \o << " ", "x" >> }

Ok(value) == [ tag |-> "Ok", value |-> value ]
Err(error) == [ tag |-> "Err", error |-> error ]
Pending == [ tag |-> "Pending" ]
Panicked == [ tag |-> "Panicked" ]

\* mutant of DropTempDir: the TempDir is turned into a plain path (or
\* forgotten) and never dropped, so the directory stays
DropTempDir_Persisted(removed) == "exists"

\* dropping the TempDir removes the directory; a failed removal is ignored
\* and leaves the directory behind
DropTempDir(removed) == IF removed THEN "removed" ELSE "left"

RunInit ==
  /\ pc = "init"
  /\ calls = << >>
  /\ container = "absent"
  /\ exit_code = None
  /\ logs = None
  /\ timed_out = "no"
  /\ result = None
  /\ ret = Pending
  /\ work_dir = "none"

\* run_verification up to the first await: tempdir(), prepare_challenge_dir
PrepareWorkspace(outcome, removed) ==
  /\ pc = "init"
  /\ IF outcome = "tempdir_failed"
     THEN /\ ret' = Err("Io")
          /\ pc' = "returned"
          /\ UNCHANGED work_dir
     ELSE IF outcome = "prepare_failed"
     THEN /\ ret' = Err("Io")
          /\ pc' = "returned"
          /\ work_dir' = DropTempDir(removed)
     ELSE /\ pc' = "create"
          /\ work_dir' = "exists"
          /\ UNCHANGED ret
  /\ UNCHANGED << calls, container, exit_code, logs, timed_out, result >>

\* mutant of CreateContainer: the error of create_container is dropped (no
\* `?`) and the run goes on to start the container
CreateContainer_IgnoreFailure(ok) ==
  /\ pc = "create"
  /\ calls' = Append(calls, "create")
  /\ container' = IF ok THEN "created" ELSE container
  /\ pc' = "start"
  /\ UNCHANGED << result, exit_code, logs, timed_out, ret, work_dir >>

\* run_container: create_container(..).await.map_err(ContainerCreationFailed)?
CreateContainer(ok) ==
  /\ pc = "create"
  /\ calls' = Append(calls, "create")
  /\ IF ok
     THEN /\ container' = "created"
          /\ pc' = "start"
          /\ UNCHANGED result
     ELSE /\ result' = Some(Err("ContainerCreationFailed"))
          /\ pc' = "cleanup"
          /\ UNCHANGED container
  /\ UNCHANGED << exit_code, logs, timed_out, ret, work_dir >>

\* run_container: start_container(..).await.map_err(ExecutionFailed)?, then
\* timeout(.., wait_for_container(..)) is polled: the wait stream is opened
StartContainer(ok) ==
  /\ pc = "start"
  /\ IF ok
     THEN /\ calls' = calls \o << "start", "wait" >>
          /\ container' = "running"
          /\ pc' = "wait"
          /\ UNCHANGED result
     ELSE /\ calls' = Append(calls, "start")
          /\ result' = Some(Err("ExecutionFailed"))
          /\ pc' = "cleanup"
          /\ UNCHANGED container
  /\ UNCHANGED << exit_code, logs, timed_out, ret, work_dir >>

\* wait_for_container: wait_stream.next().await; item is Some(Ok(code)),
\* Some(Err) or None
WaitNext(item) ==
  /\ pc = "wait"
  /\ IF item.tag = "Ok"
     THEN /\ exit_code' = Some(item.value)
          /\ container' = "exited"
          /\ calls' = Append(calls, "logs")
          /\ pc' = "logs"
          /\ UNCHANGED result
     ELSE /\ result' = Some(Err("ExecutionFailed"))
          /\ pc' = "cleanup"
          /\ UNCHANGED << exit_code, container, calls >>
  /\ UNCHANGED << logs, timed_out, ret, work_dir >>

\* the exit-code check that follows parse_cargo_output in run_container
ExitCodePolicy(parsed, code) ==
  IF code = OomExitCode
  THEN [ parsed EXCEPT !.runtime_error = Some(RuntimeError_OutOfMemory),
                       !.success = FALSE ]
  ELSE parsed

\* wait_for_container: the log stream ends; run_container parses the output
\* and applies the exit-code check.  A panic of the parser unwinds through
\* run_container and run_verification: nothing after it runs, the TempDir
\* is dropped by the unwinding.
LogsEnd(stdout, stderr, removed) ==
  /\ pc = "logs"
  /\ logs' = Some([ stdout |-> stdout, stderr |-> stderr ])
  /\ LET parsed == parse_cargo_output(stdout, stderr)
     IN  IF parsed.aborted
         THEN /\ pc' = "panicked"
              /\ ret' = Panicked
              /\ work_dir' = DropTempDir(removed)
              /\ UNCHANGED result
         ELSE /\ result' = Some(Ok(ExitCodePolicy(parsed.value, Unwrap(exit_code))))
              /\ pc' = "cleanup"
              /\ UNCHANGED << ret, work_dir >>
  /\ UNCHANGED << calls, container, exit_code, timed_out >>

\* timeout(self.config.timeout, wait_for_container(..)) yields Err(Elapsed):
\* the deadline covers the whole of wait_for_container, the wait for the
\* exit and the reading of the logs
DeadlineElapsed ==
  /\ pc \in {"wait", "logs"}
  /\ timed_out' = pc
  /\ pc' = "kill"
  /\ UNCHANGED << calls, container, exit_code, logs, result, ret, work_dir >>

\* mutant of KillContainer: the timeout arm reports Timeout without killing
KillContainer_NoKill(ok) ==
  /\ pc = "kill"
  /\ result' = Some(Ok(VerificationResult_runtime_error(RuntimeError_Timeout)))
  /\ pc' = "cleanup"
  /\ UNCHANGED << calls, container, exit_code, logs, timed_out, ret, work_dir >>

\* run_container, Err(_) arm: `let _ = kill_container(..).await`, then
\* Ok(VerificationResult::runtime_error(Timeout, ..))
KillContainer(ok) ==
  /\ pc = "kill"
  /\ calls' = Append(calls, "kill")
  /\ container' = IF ok /\ container = "running" THEN "exited" ELSE container
  /\ result' = Some(Ok(VerificationResult_runtime_error(RuntimeError_Timeout)))
  /\ pc' = "cleanup"
  /\ UNCHANGED << exit_code, logs, timed_out, ret, work_dir >>

\* mutant of CleanupContainer: an error of run_container is propagated with
\* `?` before the cleanup, which then runs only after a verdict
CleanupContainer_AfterOkOnly(ok, removed) ==
  /\ pc = "cleanup"
  /\ ok => container # "absent"
  /\ IF Unwrap(result).tag = "Err"
     THEN UNCHANGED << calls, container >>
     ELSE /\ calls' = Append(calls, "remove")
          /\ container' = IF ok THEN "removed" ELSE container
  /\ ret' = Unwrap(result)
  /\ work_dir' = DropTempDir(removed)
  /\ pc' = "returned"
  /\ UNCHANGED << exit_code, logs, timed_out, result >>

\* mutant of CleanupContainer: the result of cleanup_container is propagated
\* with `?` instead of being discarded
CleanupContainer_PropagateFailure(ok, removed) ==
  /\ pc = "cleanup"
  /\ ok => container # "absent"
  /\ calls' = Append(calls, "remove")
  /\ container' = IF ok THEN "removed" ELSE container
  /\ ret' = IF ok THEN Unwrap(result) ELSE Err("CleanupFailed")
  /\ work_dir' = DropTempDir(removed)
  /\ pc' = "returned"
  /\ UNCHANGED << exit_code, logs, timed_out, result >>

\* run_verification: `let _ = self.cleanup_container(..).await; result`
\* (remove_container with force: true), then the TempDir is dropped
CleanupContainer(ok, removed) ==
  /\ pc = "cleanup"
  /\ ok => container # "absent"
  /\ calls' = Append(calls, "remove")
  /\ container' = IF ok THEN "removed" ELSE container
  /\ ret' = Unwrap(result)
  /\ work_dir' = DropTempDir(removed)
  /\ pc' = "returned"
  /\ UNCHANGED << exit_code, logs, timed_out, result >>

WaitItems == { Ok(c) : c \in ExitCodes } \cup { Err("wait"), [ tag |-> "None" ] }

RunNext ==
  \/ \E o \in {"ok", "tempdir_failed", "prepare_failed"}, r \in BOOLEAN :
       PrepareWorkspace(o, r) /\ UNCHANGED << parse_vars, pool_vars, sweep_vars, race_vars >>
  \/ \E ok \in BOOLEAN : CreateContainer(ok) /\ UNCHANGED << parse_vars, pool_vars, sweep_vars, race_vars >>
  \/ \E ok \in BOOLEAN : StartContainer(ok) /\ UNCHANGED << parse_vars, pool_vars, sweep_vars, race_vars >>
  \/ \E i \in WaitItems : WaitNext(i) /\ UNCHANGED << parse_vars, pool_vars, sweep_vars, race_vars >>
  \/ \E so \in RunStdouts, se \in RunStderrs, r \in BOOLEAN :
       LogsEnd(so, se, r) /\ UNCHANGED << parse_vars, pool_vars, sweep_vars, race_vars >>
  \/ DeadlineElapsed /\ UNCHANGED << parse_vars, pool_vars, sweep_vars, race_vars >>
  \/ \E ok \in BOOLEAN : KillContainer(ok) /\ UNCHANGED << parse_vars, pool_vars, sweep_vars, race_vars >>
  \/ \E ok \in BOOLEAN, r \in BOOLEAN :
       CleanupContainer(ok, r) /\ UNCHANGED << parse_vars, pool_vars, sweep_vars, race_vars >>

ParseQuiet ==
  /\ p_pc = "input" /\ p_output = << >> /\ p_stderr = << >> /\ p_result = NotCalled

Init == RunInit /\ ParseQuiet /\ PoolQuiet /\ SweepQuiet /\ RaceQuiet

Next == RunNext

Spec == Init /\ [][Next]_vars

\* The same run under the scheduling the runtime and the engine give: the
\* timer of tokio::time::timeout fires once the deadline has passed, and the
\* kill and remove calls of the engine return.  Nothing makes the container
\* exit or the log stream end.
DeadlineStep == DeadlineElapsed /\ UNCHANGED << parse_vars, pool_vars, sweep_vars, race_vars >>
KillStep == \E ok \in BOOLEAN : KillContainer(ok) /\ UNCHANGED << parse_vars, pool_vars, sweep_vars, race_vars >>
CleanupStep ==
  \E ok \in BOOLEAN, r \in BOOLEAN :
    CleanupContainer(ok, r) /\ UNCHANGED << parse_vars, pool_vars, sweep_vars, race_vars >>

SpecLive ==
  /\ Init
  /\ [][Next]_vars
  /\ WF_vars(DeadlineStep)
  /\ WF_vars(KillStep)
  /\ WF_vars(CleanupStep)

(***************************************************************************)
(* Properties of run_verification (Spec).                                  *)
(***************************************************************************)
Count(seq, x) == Cardinality({ i \in DOMAIN seq : seq[i] = x })
IndexOf(seq, x) == CHOOSE i \in DOMAIN seq : seq[i] = x
Last(seq) == seq[Len(seq)]

\* C1: whenever run_verification has returned after reaching the
\* container-creation step (with a verdict, a creation failure, a start
\* failure, a wait error or a timeout), the forced removal of the container
\* has been attempted, once, as the last engine call of the run.
C1_RemovalBeforeReturn ==
  (pc = "returned" /\ Count(calls, "create") > 0)
    => (Count(calls, "remove") = 1 /\ Last(calls) = "remove")

\* C1 witness: a run whose wait errored has returned ExecutionFailed after
\* attempting the removal.
C1_Witness ==
  /\ pc = "returned"
  /\ ret = Err("ExecutionFailed")
  /\ Count(calls, "wait") = 1
  /\ Last(calls) = "remove"

\* C2: when the deadline elapses before the container has exited, the run
\* returns Ok with runtime_error = Timeout, success = false, zero counts and
\* no compile error; kill was invoked exactly once, and the removal was
\* attempted after the kill.
C2_TimeoutVerdict ==
  (pc = "returned" /\ timed_out = "wait")
    => /\ ret.tag = "Ok"
       /\ ret.value.runtime_error = Some(RuntimeError_Timeout)
       /\ ret.value.success = FALSE
       /\ ret.value.tests_passed = 0
       /\ ret.value.tests_failed = 0
       /\ ret.value.tests_total = 0
       /\ ret.value.compile_error = None
       /\ Count(calls, "kill") = 1
       /\ Count(calls, "remove") = 1
       /\ IndexOf(calls, "kill") < IndexOf(calls, "remove")

\* C2 witness: a run has returned after its deadline elapsed while the
\* container was still running, the kill having failed or not.
C2_Witness ==
  /\ pc = "returned"
  /\ timed_out = "wait"
  /\ exit_code = None
  /\ calls = << "create", "start", "wait", "kill", "remove" >>

\* C3 (as claimed): once the wait stream has delivered exit code 137 within
\* the deadline, the run ends by returning Ok with runtime_error =
\* OutOfMemory and success = false, whatever stdout and stderr hold.
C3_OomExitCodeAlwaysReported ==
  (exit_code = Some(OomExitCode) /\ pc \in {"returned", "panicked"})
    => /\ ret.tag = "Ok"
       /\ ret.value.runtime_error = Some(RuntimeError_OutOfMemory)
       /\ ret.value.success = FALSE

\* C4 (as claimed): a returned VerificationResult never has compile_error
\* and runtime_error both set, and success implies that both are unset.
C4_OneOutcomeClass ==
  (pc = "returned" /\ ret.tag = "Ok")
    => /\ ~(IsSome(ret.value.compile_error) /\ IsSome(ret.value.runtime_error))
       /\ ret.value.success
            => (ret.value.compile_error = None /\ ret.value.runtime_error = None)

(***************************************************************************)
(* Properties of parse_cargo_output (SpecParse).  What stdout says is      *)
(* read off the input here without the parser's scan: from the last line   *)
(* of a kind backwards.                                                    *)
(***************************************************************************)
IsErrorDiagnostic(l) == l.kind = "compiler-message" /\ l.level = "error"
HasErrorDiagnostic(output) == \E i \in DOMAIN output : IsErrorDiagnostic(output[i])

IsBuildFinished(l) == l.kind = "build-finished"
\* some build-finished message reported success
BuildFinishedReportedSuccess(output) ==
  \E i \in DOMAIN output : IsBuildFinished(output[i]) /\ output[i].success
\* no build-finished message, or the last one reported success
NoBuildFailureReported(output) ==
  \A i \in DOMAIN output :
    (IsBuildFinished(output[i]) /\ ~output[i].success)
      => \E j \in DOMAIN output : j > i /\ IsBuildFinished(output[j]) /\ output[j].success

\* position of the last suite summary that carries the count, 0 if none
LastSummary(output, field) ==
  LET at == { i \in DOMAIN output :
                /\ output[i].kind = "suite"
                /\ output[i].event \in {"ok", "failed"}
                /\ IsSome(output[i][field]) }
  IN  IF at = {} THEN 0 ELSE CHOOSE i \in at : \A j \in at : j <= i
\* the aggregate count: the last summary's count and the test events after it
Aggregate(output, field, event) ==
  LET k == LastSummary(output, field)
  IN  (IF k = 0 THEN 0 ELSE Unwrap(output[k][field]))
      + Cardinality({ j \in DOMAIN output :
                        j > k /\ output[j].kind = "test" /\ output[j].event = event })
AggregatePassed(output) == Aggregate(output, "passed", "ok")
AggregateFailed(output) == Aggregate(output, "failed", "failed")

HasPanicSignature(stderr) == Contains(stderr, PanickedAt)
HasRuntimeSignature(stderr) ==
  HasPanicSignature(stderr) \/ HasTimeoutSignature(stderr) \/ HasOomSignature(stderr)

\* the variant belongs to a signature that stderr contains
VariantHasSignature(error, stderr) ==
  \/ error.tag = "Panic" /\ HasPanicSignature(stderr)
  \/ error.tag = "Timeout" /\ HasTimeoutSignature(stderr)
  \/ error.tag = "OutOfMemory" /\ HasOomSignature(stderr)

ParseDone == p_pc = "done"
ParseReturned == p_pc = "done" /\ ~p_result.aborted

\* C5 (as claimed): with an error-level compiler message in stdout the call
\* returns a compile-error result (compile_error set, success false,
\* runtime_error unset, all counts 0), whatever else stdout holds and
\* whatever signature stderr holds.
C5_CompileErrorAlways ==
  (ParseDone /\ HasErrorDiagnostic(p_output))
    => /\ ~p_result.aborted
       /\ IsSome(p_result.value.compile_error)
       /\ p_result.value.success = FALSE
       /\ p_result.value.runtime_error = None
       /\ p_result.value.tests_passed = 0
       /\ p_result.value.tests_failed = 0
       /\ p_result.value.tests_total = 0

\* C6 (as claimed): with no error-level compiler message in stdout and a
\* runtime-error signature in stderr the call returns success = false and a
\* runtime_error of a variant whose signature stderr holds, whatever counts
\* stdout reports.
C6_RuntimeErrorAlways ==
  (ParseDone /\ ~HasErrorDiagnostic(p_output) /\ HasRuntimeSignature(p_stderr))
    => /\ ~p_result.aborted
       /\ p_result.value.success = FALSE
       /\ IsSome(p_result.value.runtime_error)
       /\ VariantHasSignature(Unwrap(p_result.value.runtime_error), p_stderr)

\* C7 (as claimed): with neither a compile error nor a runtime error in the
\* result, success holds exactly if a build-finished message reported
\* success, no test failed and at least one test passed.
C7_SuccessIffBuildMessage ==
  (ParseReturned /\ p_result.value.compile_error = None
                 /\ p_result.value.runtime_error = None)
    => (p_result.value.success
          <=> /\ BuildFinishedReportedSuccess(p_output)
              /\ AggregateFailed(p_output) = 0
              /\ AggregatePassed(p_output) > 0)

\* C7 (amended): with neither a compile error nor a runtime error in the
\* result, success holds exactly if no build failure stands (stdout has no
\* build-finished message, or its last one reported success), no test
\* failed and at least one test passed.
C7_SuccessIffNoBuildFailure ==
  (ParseReturned /\ p_result.value.compile_error = None
                 /\ p_result.value.runtime_error = None)
    => (p_result.value.success
          <=> /\ NoBuildFailureReported(p_output)
              /\ AggregateFailed(p_output) = 0
              /\ AggregatePassed(p_output) > 0)

\* C7 witness: passed tests only and no build-finished message at all,
\* reported as a success.
C7_Witness ==
  /\ ParseReturned
  /\ p_result.value.success
  /\ p_result.value.tests_passed = MaxCount
  /\ ~BuildFinishedReportedSuccess(p_output)
  /\ p_stderr = << >>

\* C8 (as claimed): when the aggregate passed-test count is zero the call
\* returns success = false, and empty stdout and stderr give success =
\* false with zero passed and zero failed.
C8_ZeroPassedNeverSuccess ==
  /\ (ParseDone /\ AggregatePassed(p_output) = 0)
       => (~p_result.aborted /\ p_result.value.success = FALSE)
  /\ (ParseDone /\ p_output = << >> /\ p_stderr = << >>)
       => /\ ~p_result.aborted
          /\ p_result.value.success = FALSE
          /\ p_result.value.tests_passed = 0
          /\ p_result.value.tests_failed = 0

(***************************************************************************)
(* pool.rs: the ContainerPool called by NumCallers concurrent tasks.  A    *)
(* call waits for the Mutex (`self.idle.lock().await`), runs its body      *)
(* while holding it and releases it on return.  A task that waits for the  *)
(* Mutex has no effect on the pool, so a call starts when the Mutex is     *)
(* granted.  call[p].step: "none" -> "locked" (-> "checked") -> "none"     *)
(***************************************************************************)
Procs == 1..NumCallers
Handles == {"c1", "c2"}

NoCall == [ op |-> "none", arg |-> "", step |-> "none" ]
NoRes == [ op |-> "none" ]

PoolCalls ==
  { [ op |-> o, arg |-> "", step |-> "locked" ] : o \in {"get", "available", "is_full", "drain"} }
  \cup { [ op |-> "return_container", arg |-> h, step |-> "locked" ] : h \in Handles }

\* ContainerPool::new: max_size = config.pre_warm_pool_size, idle empty
PoolInit ==
  /\ max_size \in 0..MaxPoolSize
  /\ idle = << >>
  /\ lock = 0
  /\ call = [ p \in Procs |-> NoCall ]
  /\ res = [ p \in Procs |-> NoRes ]
  /\ accepted = << >>
  /\ handed = << >>
  /\ returns_run = 0
  /\ ops = 0

\* tokio::sync::Mutex::lock: granted only while no task holds the guard
LockFree == lock = 0

\* task p calls c: `self.idle.lock().await` completes
Acquire(p, c) ==
  /\ call[p].step = "none"
  /\ ops < MaxOps
  /\ LockFree
  /\ lock' = p
  /\ call' = [ call EXCEPT ![p] = c ]
  /\ ops' = ops + 1
  /\ UNCHANGED << max_size, idle, res, accepted, handed, returns_run >>

\* mutant of pop_front: the newest handle is taken (pop_back)
pop_back(q) ==
  IF q = << >> THEN [ value |-> None, rest |-> q ]
  ELSE [ value |-> Some(q[Len(q)]), rest |-> SubSeq(q, 1, Len(q) - 1) ]

\* VecDeque::pop_front
pop_front(q) ==
  IF q = << >> THEN [ value |-> None, rest |-> q ]
  ELSE [ value |-> Some(Head(q)), rest |-> Tail(q) ]

\* ContainerPool::get
Get(p) ==
  /\ call[p].step = "locked" /\ call[p].op = "get"
  /\ LET popped == pop_front(idle)
     IN  /\ idle' = popped.rest
         /\ res' = [ res EXCEPT ![p] =
                       [ op |-> "get", value |-> popped.value, seen |-> Len(idle) ] ]
         /\ handed' = handed \o popped.value
  /\ returns_run' = 0
  /\ lock' = 0
  /\ call' = [ call EXCEPT ![p] = NoCall ]
  /\ UNCHANGED << max_size, accepted, ops >>

\* mutant of HasRoom: one handle too many is accepted
HasRoom_OffByOne(len, max) == len <= max

\* `idle.len() < self.max_size`
HasRoom(len, max) == len < max

\* ContainerPool::return_container: the capacity test ...
ReturnCheck(p) ==
  /\ call[p].step = "locked" /\ call[p].op = "return_container"
  /\ call' = [ call EXCEPT ![p] =
                 [ op |-> "return_container", arg |-> call[p].arg, step |-> "checked",
                   room |-> HasRoom(Len(idle), max_size) ] ]
  /\ UNCHANGED << max_size, idle, lock, res, accepted, handed, returns_run, ops >>

\* ... and the push_back when there is room; the call returns () either way
\* (value is what the caller gets; pushed records, for the properties only,
\* whether the handle went into the queue)
ReturnPush(p) ==
  /\ call[p].step = "checked"
  /\ IF call[p].room
     THEN /\ idle' = Append(idle, call[p].arg)
          /\ accepted' = Append(accepted, call[p].arg)
     ELSE UNCHANGED << idle, accepted >>
  /\ res' = [ res EXCEPT ![p] =
                [ op |-> "return_container", value |-> "unit", pushed |-> call[p].room ] ]
  /\ returns_run' = returns_run + 1
  /\ lock' = 0
  /\ call' = [ call EXCEPT ![p] = NoCall ]
  /\ UNCHANGED << max_size, handed, ops >>

\* `idle.len()`
available_of(q) == Len(q)
\* `idle.len() >= self.max_size`
is_full_of(q, max) == Len(q) >= max

\* ContainerPool::available
Available(p) ==
  /\ call[p].step = "locked" /\ call[p].op = "available"
  /\ res' = [ res EXCEPT ![p] = [ op |-> "available", value |-> available_of(idle) ] ]
  /\ lock' = 0
  /\ call' = [ call EXCEPT ![p] = NoCall ]
  /\ UNCHANGED << max_size, idle, accepted, handed, returns_run, ops >>

\* ContainerPool::is_full
IsFull(p) ==
  /\ call[p].step = "locked" /\ call[p].op = "is_full"
  /\ res' = [ res EXCEPT ![p] = [ op |-> "is_full", value |-> is_full_of(idle, max_size) ] ]
  /\ lock' = 0
  /\ call' = [ call EXCEPT ![p] = NoCall ]
  /\ UNCHANGED << max_size, idle, accepted, handed, returns_run, ops >>

\* ContainerPool::drain: `idle.drain(..).collect()`
Drain(p) ==
  /\ call[p].step = "locked" /\ call[p].op = "drain"
  /\ res' = [ res EXCEPT ![p] = [ op |-> "drain", value |-> idle ] ]
  /\ handed' = handed \o idle
  /\ idle' = << >>
  /\ returns_run' = 0
  /\ lock' = 0
  /\ call' = [ call EXCEPT ![p] = NoCall ]
  /\ UNCHANGED << max_size, accepted, ops >>

PoolNext ==
  \/ \E p \in Procs, c \in PoolCalls : Acquire(p, c) /\ UNCHANGED << parse_vars, run_vars, sweep_vars, race_vars >>
  \/ \E p \in Procs : Get(p) /\ UNCHANGED << parse_vars, run_vars, sweep_vars, race_vars >>
  \/ \E p \in Procs : ReturnCheck(p) /\ UNCHANGED << parse_vars, run_vars, sweep_vars, race_vars >>
  \/ \E p \in Procs : ReturnPush(p) /\ UNCHANGED << parse_vars, run_vars, sweep_vars, race_vars >>
  \/ \E p \in Procs : Available(p) /\ UNCHANGED << parse_vars, run_vars, sweep_vars, race_vars >>
  \/ \E p \in Procs : IsFull(p) /\ UNCHANGED << parse_vars, run_vars, sweep_vars, race_vars >>
  \/ \E p \in Procs : Drain(p) /\ UNCHANGED << parse_vars, run_vars, sweep_vars, race_vars >>

PoolSpecInit == PoolInit /\ ParseQuiet /\ RunQuiet /\ SweepQuiet /\ RaceQuiet

SpecPool == PoolSpecInit /\ [][PoolNext]_vars

(***************************************************************************)
(* Properties of the ContainerPool (SpecPool).                             *)
(***************************************************************************)
\* C9: under every interleaving of the callers the pool never holds more
\* than max_size idle handles; after more than max_size return_container
\* calls with no get or drain in between, available() is exactly max_size
\* and is_full() is true.
C9_NeverExceedsMaxSize ==
  /\ available_of(idle) <= max_size
  /\ returns_run > max_size
       => (available_of(idle) = max_size /\ is_full_of(idle, max_size))

\* C9 witness: a return_container call has been refused by a full pool of
\* positive capacity while another caller is in a call of its own.
C9_Witness ==
  /\ max_size > 0
  /\ returns_run > max_size
  /\ Len(accepted) < returns_run
  /\ available_of(idle) = max_size
  /\ \E p \in Procs : call[p].step = "locked"

\* C10: the handles taken out of the pool so far, followed by those still
\* idle, are the accepted handles in the order of their acceptance (the
\* oldest idle handle leaves first); a get answers None exactly when it
\* finds the queue empty, and it can complete then without any return.
C10_Fifo ==
  /\ accepted = handed \o idle
  /\ \A p \in Procs :
       /\ res[p].op = "get" => (res[p].value = None <=> res[p].seen = 0)
       /\ (call[p].step = "locked" /\ call[p].op = "get") => ENABLED Get(p)

\* C10 witness: two different handles were accepted, the older one has been
\* handed out by get and the newer one is still idle; and some get has
\* answered None.
C10_Witness ==
  /\ Len(accepted) >= 2
  /\ accepted[1] # accepted[2]
  /\ handed = << accepted[1] >>
  /\ idle = << accepted[2] >>
  /\ \E p \in Procs : res[p].op = "get" /\ res[p].value = Some(accepted[1])

\* does sequence q hold x
InSeq(q, x) == \E i \in DOMAIN q : q[i] = x
NoDuplicates(q) == \A i, j \in DOMAIN q : q[i] = q[j] => i = j

\* C11 (as claimed): a handle is in at most one place at a time: the idle
\* queue never holds the same handle twice, and a handle handed out by get
\* or drain is not in the queue when that call returns -- also when callers
\* pass the same handle to return_container twice.  (With a duplicate-free
\* queue a handle leaves the queue twice only if it was accepted again in
\* between, so the claim's third part, no handing out to two callers without
\* a return in between, stands and falls with the first.)
C11_HandleInOnePlace ==
  /\ [](NoDuplicates(idle))
  /\ [][ \A p \in Procs :
          (Get(p) \/ Drain(p))
            => \A h \in Handles :
                 (IF res'[p].op = "get"
                  THEN res'[p].value = Some(h)
                  ELSE InSeq(res'[p].value, h)) => ~InSeq(idle', h) ]_vars

\* what the caller of return_container can observe of the call
Outcome(r) == r.value

\* C12 (as claimed): the outcome of a return_container call tells the caller
\* whether the handle was accepted: a call whose handle was refused never
\* has the outcome of a call whose handle was accepted, so a refused handle
\* is known by its caller to need destruction.
C12_RefusalVisibleToCaller ==
  \A p, q \in Procs :
    (res[p].op = "return_container" /\ res[q].op = "return_container"
       /\ res[p].pushed /\ ~res[q].pushed)
      => Outcome(res[p]) # Outcome(res[q])

(***************************************************************************)
(* Further properties of run_verification (Spec).                          *)
(***************************************************************************)
\* the engine rejected the creation: create was called and no container
\* came to exist
CreationRejected == Count(calls, "create") > 0 /\ container = "absent"

\* C13: run_verification returns Err only for infrastructure failures and
\* Ok for every verdict.  A rejected creation makes run_container produce
\* ContainerCreationFailed with neither start nor wait invoked; a returned
\* Err is Io (no engine call at all), ContainerCreationFailed (create only)
\* or ExecutionFailed (a failed start, wait never invoked, or a failed
\* wait); a wait that ended without a status and without the deadline
\* elapsing returns ExecutionFailed; and whatever was parsed from collected
\* logs or produced by the deadline is returned as Ok.
C13_ErrOnlyForInfrastructure ==
  /\ CreationRejected
       => /\ result = Some(Err("ContainerCreationFailed"))
          /\ Count(calls, "start") = 0
          /\ Count(calls, "wait") = 0
  /\ (pc = "returned" /\ ret.tag = "Err")
       => \/ ret.error = "Io" /\ calls = << >>
          \/ ret.error = "ContainerCreationFailed" /\ calls = << "create", "remove" >>
          \/ ret.error = "ExecutionFailed" /\ calls = << "create", "start", "remove" >>
          \/ /\ ret.error = "ExecutionFailed"
             /\ calls = << "create", "start", "wait", "remove" >>
             /\ exit_code = None
  /\ (pc = "returned" /\ Count(calls, "wait") = 1 /\ exit_code = None /\ timed_out = "no")
       => ret = Err("ExecutionFailed")
  /\ (pc = "returned" /\ (IsSome(logs) \/ timed_out # "no"))
       => ret.tag = "Ok"

\* C13 witness: a run whose container creation was rejected has returned
\* ContainerCreationFailed, having called create and the removal only.
C13_Witness ==
  /\ pc = "returned"
  /\ ret = Err("ContainerCreationFailed")
  /\ calls = << "create", "remove" >>
  /\ container = "absent"

\* C14: what run_verification returns is what run_container produced,
\* whether the removal of the container succeeded or failed, and it is
\* never a CleanupFailed error.
C14_RemovalFailureSwallowed ==
  (pc = "returned" /\ IsSome(result))
    => (ret = Unwrap(result) /\ ret # Err("CleanupFailed"))

\* C14 witness: a run has returned a verdict although the removal failed
\* (the container is still there after the removal was attempted).
C14_Witness ==
  /\ pc = "returned"
  /\ Count(calls, "remove") = 1
  /\ container \in {"running", "exited"}
  /\ ret.tag = "Ok"

\* C15 (as claimed): the deadline bounds only the wait for the exit: a run
\* whose wait stream delivered the exit status returns the verdict parsed
\* from the collected logs (with the exit-code check applied), never a
\* Timeout made by the deadline, however long the log retrieval takes.
C15_DeadlineBoundsOnlyTheWait ==
  (IsSome(exit_code) /\ pc = "returned")
    => /\ timed_out = "no"
       /\ IsSome(logs)
       /\ LET parsed == parse_cargo_output(Unwrap(logs).stdout, Unwrap(logs).stderr)
          IN  /\ ~parsed.aborted
              /\ ret = Ok(ExitCodePolicy(parsed.value, Unwrap(exit_code)))

(***************************************************************************)
(* Properties of the stdout field (SpecText).                              *)
(***************************************************************************)
\* a line that has text and is not a JSON message
IsNonJsonLine(l) == l.kind \in {"text", "badjson"}

RECURSIVE VerbatimNonJson(_)
\* the non-JSON lines of stdout as they stand, in their order
VerbatimNonJson(output) ==
  IF output = << >> THEN << >>
  ELSE (IF IsNonJsonLine(Head(output)) THEN << RawText(Head(output)) >> ELSE << >>)
       \o VerbatimNonJson(Tail(output))

\* C16 (as claimed): in every verdict class the stdout field of the result
\* holds the lines of stdout that are not JSON messages, verbatim and in
\* their original order, also those with leading or trailing whitespace and
\* those that begin with '{' without being valid JSON (blank lines are left
\* out of the comparison).
C16_NonJsonLinesVerbatim ==
  ParseReturned => p_result.value.stdout = VerbatimNonJson(p_output)

\* C17 (as claimed): every run whose container was started (the wait has
\* begun) eventually returns, even when the container never exits, given
\* that the deadline's timer fires and that kill and remove return.
C17_StartedRunReturns == (pc = "wait") ~> (pc = "returned")

\* C18 (as claimed): the workspace directory created for the run no longer
\* exists when run_verification returns, on every return path.
C18_WorkDirGoneOnReturn ==
  pc = "returned" => work_dir \in {"none", "removed"}

\* C18 (amended): when run_verification returns, on every return path, the
\* workspace directory created for the run has been dropped: it no longer
\* exists, or its removal was attempted and failed; no directory was made
\* only when tempdir() itself failed, before any engine call.
C18_WorkDirDroppedOnReturn ==
  pc = "returned"
    => /\ work_dir \in {"none", "removed", "left"}
       /\ work_dir = "none" => (ret = Err("Io") /\ calls = << >>)

\* C18 witness: a run has returned a verdict and its workspace directory is
\* still there because the removal failed.
C18_Witness ==
  /\ pc = "returned"
  /\ ret.tag = "Ok"
  /\ work_dir = "left"

(***************************************************************************)
(* docker.rs: one call of DockerRunner::cleanup_orphaned_containers.  The  *)
(* engine holds NumContainers containers, with or without the label of the *)
(* subsystem, created a second more than, exactly, or a second less than   *)
(* the threshold before the sweep starts.  The engine answers the list     *)
(* call with the labelled containers in an order of its choice, each       *)
(* summary carrying its id and creation time.  The clock may advance       *)
(* between any two steps.  s_pc: "start" -> "loop" (-> "removing" ->       *)
(* "loop") -> "done"                                                       *)
(***************************************************************************)
\* `now - created > 3600`
StaleThreshold == 3600

AppLabel == "app=gamified-rust-challenge"
Labels == { AppLabel, "app=other" }

\* the time at which the sweep starts
SweepStart == StaleThreshold + 1
CreatedTimes ==
  { SweepStart - StaleThreshold - 1, SweepStart - StaleThreshold, SweepStart - StaleThreshold + 1 }
ContainerIds == 1..NumContainers

\* bollard's ContainerSummary: id and created are Options
ContainerSummary(id, created) == [ id |-> Some(id), created |-> Some(created) ]

SweepInit ==
  /\ s_pc = "start"
  /\ s_engine \in [ ContainerIds -> [ label : Labels, created : CreatedTimes, present : {TRUE} ] ]
  /\ s_now = SweepStart
  /\ s_list = << >>
  /\ s_i = 1
  /\ s_attempts = << >>
  /\ s_cleaned = 0
  /\ s_ret = Pending

\* all: true, filters: label = app=gamified-rust-challenge
Listed == { id \in ContainerIds : s_engine[id].present /\ s_engine[id].label = AppLabel }

\* the orders in which the members of S can be listed
Orders(S) ==
  { q \in [ 1..Cardinality(S) -> S ] : \A a, b \in DOMAIN q : q[a] = q[b] => a = b }

\* list_containers(Some(opts)).await answers Ok
ListContainers(order) ==
  /\ s_pc = "start"
  /\ order \in Orders(Listed)
  /\ s_list' = [ k \in DOMAIN order |-> ContainerSummary(order[k], s_engine[order[k]].created) ]
  /\ s_pc' = "loop"
  /\ UNCHANGED << s_engine, s_now, s_i, s_attempts, s_cleaned, s_ret >>

\* list_containers(..).await.map_err(RunnerError::Docker)?
ListFails ==
  /\ s_pc = "start"
  /\ s_ret' = Err("Docker")
  /\ s_pc' = "done"
  /\ UNCHANGED << s_engine, s_now, s_list, s_i, s_attempts, s_cleaned >>

\* mutant of IsStale: a container exactly as old as the threshold is stale
IsStale_AtThreshold(now, created) == now - created >= StaleThreshold

\* `now - created > 3600`
IsStale(now, created) == now - created > StaleThreshold

\* one iteration of `for container in containers` up to the await of
\* cleanup_container (remove_container with force: true)
Inspect ==
  /\ s_pc = "loop"
  /\ s_i <= Len(s_list)
  /\ LET c == s_list[s_i]
     IN  IF IsSome(c.id) /\ IsSome(c.created) /\ IsStale(s_now, Unwrap(c.created))
         THEN /\ s_attempts' = Append(s_attempts,
                                      [ id |-> Unwrap(c.id), force |-> TRUE, at |-> s_now ])
              /\ s_pc' = "removing"
              /\ UNCHANGED s_i
         ELSE /\ s_i' = s_i + 1
              /\ UNCHANGED << s_attempts, s_pc >>
  /\ UNCHANGED << s_engine, s_now, s_list, s_cleaned, s_ret >>

\* `let _ = self.cleanup_container(&id).await; cleaned += 1;`
RemoveReturns(ok) ==
  /\ s_pc = "removing"
  /\ LET id == s_attempts[Len(s_attempts)].id
     IN  /\ ok => s_engine[id].present
         /\ s_engine' = IF ok THEN [ s_engine EXCEPT ![id].present = FALSE ] ELSE s_engine
  /\ s_cleaned' = s_cleaned + 1
  /\ s_i' = s_i + 1
  /\ s_pc' = "loop"
  /\ UNCHANGED << s_now, s_list, s_attempts, s_ret >>

\* the loop is over: Ok(cleaned)
SweepReturn ==
  /\ s_pc = "loop"
  /\ s_i > Len(s_list)
  /\ s_ret' = Ok(s_cleaned)
  /\ s_pc' = "done"
  /\ UNCHANGED << s_engine, s_now, s_list, s_i, s_attempts, s_cleaned >>

\* a second passes
Tick ==
  /\ s_pc # "done"
  /\ s_now < SweepStart + MaxTicks
  /\ s_now' = s_now + 1
  /\ UNCHANGED << s_pc, s_engine, s_list, s_i, s_attempts, s_cleaned, s_ret >>

SweepNext ==
  \/ \E order \in Orders(Listed) :
       ListContainers(order) /\ UNCHANGED << parse_vars, run_vars, pool_vars, race_vars >>
  \/ ListFails /\ UNCHANGED << parse_vars, run_vars, pool_vars, race_vars >>
  \/ Inspect /\ UNCHANGED << parse_vars, run_vars, pool_vars, race_vars >>
  \/ \E ok \in BOOLEAN : RemoveReturns(ok) /\ UNCHANGED << parse_vars, run_vars, pool_vars, race_vars >>
  \/ SweepReturn /\ UNCHANGED << parse_vars, run_vars, pool_vars, race_vars >>
  \/ Tick /\ UNCHANGED << parse_vars, run_vars, pool_vars, race_vars >>

SweepSpecInit == SweepInit /\ ParseQuiet /\ RunQuiet /\ PoolQuiet /\ RaceQuiet

SpecSweep == SweepSpecInit /\ [][SweepNext]_vars

(***************************************************************************)
(* Properties of cleanup_orphaned_containers (SpecSweep).                  *)
(***************************************************************************)
AttemptedIds == { s_attempts[k].id : k \in DOMAIN s_attempts }
SweepDone == s_pc = "done" /\ s_ret.tag = "Ok"

\* C19: when a sweep that obtained the list is over, a forced removal has
\* been attempted, once, for every labelled container that was older than
\* the threshold when the sweep started, whatever the earlier removals
\* answered; and every attempt was a forced removal of a labelled container
\* older than the threshold at the time of the attempt.
C19_SweepRemovesStaleOnly ==
  SweepDone
    => /\ \A id \in ContainerIds :
            (s_engine[id].label = AppLabel /\ SweepStart - s_engine[id].created > StaleThreshold)
              => id \in AttemptedIds
       /\ \A k \in DOMAIN s_attempts :
            /\ s_attempts[k].force
            /\ s_engine[s_attempts[k].id].label = AppLabel
            /\ s_attempts[k].at - s_engine[s_attempts[k].id].created > StaleThreshold
       /\ \A j, k \in DOMAIN s_attempts : s_attempts[j].id = s_attempts[k].id => j = k

\* C19 witness: a sweep is over after two removal attempts, the first of
\* which failed (its container is still there), while an unlabelled or
\* younger container, if any, was left alone.
C19_Witness ==
  /\ SweepDone
  /\ Len(s_attempts) = 2
  /\ s_engine[s_attempts[1].id].present
  /\ s_ret = Ok(2)

(***************************************************************************)
(* Properties of the result's limit tag (Spec).                            *)
(***************************************************************************)
\* C20 (as claimed): a returned result that reports runtime_error =
\* OutOfMemory, be it from exit code 137 or from a signature in stderr,
\* carries resource_limit_hit = Memory.
C20_OutOfMemoryCarriesMemoryLimit ==
  (pc = "returned" /\ ret.tag = "Ok"
     /\ ret.value.runtime_error = Some(RuntimeError_OutOfMemory))
    => ret.value.resource_limit_hit = Some(ResourceLimit_Memory)

(***************************************************************************)
(* Further properties of parse_cargo_output (SpecText, SpecParse).         *)
(***************************************************************************)
\* position of the first error-level compiler message of stdout
FirstErrorDiagnostic(output) ==
  CHOOSE i \in DOMAIN output :
    /\ IsErrorDiagnostic(output[i])
    /\ \A j \in DOMAIN output : IsErrorDiagnostic(output[j]) => i <= j

\* C21 (as claimed): when stdout holds error-level compiler messages, the
\* compile_error of the result carries the message and the file, line and
\* column (of the first span) of the first of them in stream order.
C21_FirstDiagnosticWins ==
  (ParseReturned /\ HasErrorDiagnostic(p_output))
    => LET d == p_output[FirstErrorDiagnostic(p_output)]
       IN  p_result.value.compile_error =
             Some(CompileError(d.message,
                               FirstSpanField(d.spans, "line_start"),
                               FirstSpanField(d.spans, "column_start"),
                               FirstSpanField(d.spans, "file_name")))

HasMemoryLimitSignature(stderr) ==
  \/ Contains(stderr, OOMKilledMark)
  \/ Contains(stderr, OutOfMemoryMark)
  \/ Contains(stderr, CannotAllocateMark)
HasProcessLimitSignature(stderr) ==
  Contains(stderr, PidsLimitMark) \/ Contains(stderr, ForkUnavailableMark)

\* C22 (as claimed): when stderr holds a resource-limit signature, the
\* result carries a resource_limit_hit tag, and the tag is one whose
\* signature stderr holds, in every verdict branch (compile error, runtime
\* error, pass/fail).
C22_LimitTagInEveryBranch ==
  (ParseReturned
     /\ (HasMemoryLimitSignature(p_stderr) \/ HasProcessLimitSignature(p_stderr)))
    => /\ IsSome(p_result.value.resource_limit_hit)
       /\ p_result.value.resource_limit_hit = Some(ResourceLimit_Memory)
            => HasMemoryLimitSignature(p_stderr)
       /\ p_result.value.resource_limit_hit = Some(ResourceLimit_ProcessCount)
            => HasProcessLimitSignature(p_stderr)

\* a suite summary (event ok or failed) that carries both counts
IsFullSummary(l) ==
  /\ l.kind = "suite" /\ l.event \in {"ok", "failed"}
  /\ IsSome(l.passed) /\ IsSome(l.failed)

\* C23 (as claimed): when stdout holds a suite summary carrying passed and
\* failed counts and the result is neither a compile error nor a runtime
\* error, tests_passed and tests_failed are the counts of a summary of
\* stdout, wherever the individual test events stand: events are never
\* added on top of a summary.
C23_SummaryCountsAuthoritative ==
  (ParseReturned
     /\ p_result.value.compile_error = None /\ p_result.value.runtime_error = None
     /\ \E i \in DOMAIN p_output : IsFullSummary(p_output[i]))
    => \E i \in DOMAIN p_output :
         /\ IsFullSummary(p_output[i])
         /\ p_result.value.tests_passed = Unwrap(p_output[i].passed)
         /\ p_result.value.tests_failed = Unwrap(p_output[i].failed)

\* the text that follows the marker on the first line that holds it
AfterMarker(stderr) ==
  LET with == { i \in DOMAIN Lines(stderr) : Contains(Lines(stderr)[i], PanickedAt) }
      line == Lines(stderr)[CHOOSE i \in with : \A j \in with : i <= j]
  IN  SliceFrom(line, Unwrap(Find(line, PanickedAt)) + Len(PanickedAt))

\* the message as the claim describes it: between the first pair of quotes
\* after the marker, else the trailing text, else the placeholder
ClaimedPanicMessage(stderr) ==
  LET after == AfterMarker(stderr)
      q1    == Find(after, << Quote >>)
      rest  == SliceFrom(after, Unwrap(q1) + 1)
      q2    == Find(rest, << Quote >>)
  IN  IF IsSome(q1) /\ IsSome(q2) THEN SliceTo(rest, Unwrap(q2))
      ELSE IF Trim(after) # << >> THEN Trim(after)
      ELSE UnknownPanic

\* C24 (as claimed): for a stderr that holds the panic marker, the Panic
\* message of the returned result is the text between the first pair of
\* quote characters following the marker when there is such a pair,
\* otherwise the text trailing the marker, otherwise "Unknown panic".
C24_PanicMessageExtraction ==
  (ParseReturned /\ HasPanicSignature(p_stderr) /\ p_result.value.compile_error = None)
    => p_result.value.runtime_error
         = Some(RuntimeError_Panic(ClaimedPanicMessage(p_stderr)))

RECURSIVE WithoutUnknown(_)
\* stdout with the JSON lines of an unknown reason taken out
WithoutUnknown(output) ==
  IF output = << >> THEN << >>
  ELSE (IF Head(output).kind = "unknown" THEN << >> ELSE << Head(output) >>)
       \o WithoutUnknown(Tail(output))

\* C25: JSON lines of an unknown reason are ignored without error: the
\* outcome of parse_cargo_output for a stdout is, field by field, its
\* outcome for the same stdout with those lines taken out, wherever in
\* stdout they stand (so such a line never makes the call fail either).
C25_UnknownLinesIgnored ==
  ParseDone => p_result = parse_cargo_output(WithoutUnknown(p_output), p_stderr)

\* C25 witness: a stdout with a line of an unknown reason after a passed
\* test has been parsed to a success with one test.
C25_Witness ==
  /\ ParseReturned
  /\ p_output = << TestLine("ok"), UnknownLine >>
  /\ p_stderr = << >>
  /\ p_result.value.success
  /\ p_result.value.tests_total = 1

\* some individual test event of stdout failed
HasFailedTestEvent(output) ==
  \E i \in DOMAIN output : output[i].kind = "test" /\ output[i].event = "failed"
\* some suite summary of stdout reports failed > 0
HasFailingSummary(output) ==
  \E i \in DOMAIN output :
    /\ output[i].kind = "suite" /\ output[i].event \in {"ok", "failed"}
    /\ IsSome(output[i].failed) /\ Unwrap(output[i].failed) > 0

\* C26 (as claimed): success = true is returned only if no test event of
\* stdout failed and no suite summary of stdout reports failed > 0, also
\* with several summaries and with test events after a summary.
C26_SuccessOnlyWithoutFailures ==
  (ParseReturned /\ p_result.value.success)
    => (~HasFailedTestEvent(p_output) /\ ~HasFailingSummary(p_output))

(***************************************************************************)
(* Further properties of the run's verdict (Spec).                         *)
(***************************************************************************)
\* C27 (as claimed): run_verification returns success = true only if the
\* container exited with status 0, whatever stdout and stderr hold.
C27_SuccessOnlyOnExitZero ==
  (pc = "returned" /\ ret.tag = "Ok" /\ ret.value.success)
    => exit_code = Some(0)

(***************************************************************************)
(* Further properties of the runtime-error detection (SpecParse).          *)
(***************************************************************************)
\* C28 (as claimed): parse_cargo_output is total on panic input: for every
\* stderr that contains the marker "panicked at" the call returns a result
\* and does not abort, also when the marker ends its line.
C28_TotalOnPanicInput ==
  (ParseDone /\ HasPanicSignature(p_stderr)) => ~p_result.aborted

\* stderr holds the signatures of more than one runtime-error variant
HasSeveralSignatures(stderr) ==
  \/ HasPanicSignature(stderr) /\ HasTimeoutSignature(stderr)
  \/ HasPanicSignature(stderr) /\ HasOomSignature(stderr)
  \/ HasTimeoutSignature(stderr) /\ HasOomSignature(stderr)

\* C29 (as claimed): when stderr holds more than one runtime-error
\* signature (and stdout no error diagnostic) the call classifies by the
\* priority panic > timeout > out-of-memory: a panic marker yields Panic
\* whatever else is present, a timeout or kill-signal marker without a panic
\* marker yields Timeout even beside an out-of-memory marker.
C29_PriorityPanicTimeoutOom ==
  (ParseDone /\ ~HasErrorDiagnostic(p_output) /\ HasSeveralSignatures(p_stderr))
    => /\ ~p_result.aborted
       /\ IsSome(p_result.value.runtime_error)
       /\ Unwrap(p_result.value.runtime_error).tag =
            (IF HasPanicSignature(p_stderr) THEN "Panic" ELSE "Timeout")

(***************************************************************************)
(* docker.rs: one run_verification call and one                            *)
(* cleanup_orphaned_containers call of the same DockerRunner, run as two   *)
(* tasks against one engine and one clock.  The run's container enters the *)
(* engine when create_container succeeds, with the label of the subsystem  *)
(* and the time of its creation; the Timeout future of run_container is    *)
(* armed when start_container has returned, and time does not pass its     *)
(* deadline while wait_for_container is pending.  No other await of the    *)
(* run is bounded by the code: time passes freely there.                   *)
(***************************************************************************)
\* DockerConfig::default(): timeout: Duration::from_secs(30)
Timeout == 30

\* the id under which the engine holds the container of the run
RunContainerId == NumContainers

\* the times the clock of the model shows: the start, a staleness threshold
\* later, and at most MaxTicks timeouts after either
Instants == { a * StaleThreshold + b * Timeout : a \in {0, 1}, b \in 0..MaxTicks }

\* the amounts by which the clock advances in one step
Delays == { Timeout, StaleThreshold }

\* the logs a container produces beside a sweep: a passed test, or a panic
\* whose marker ends its line
RaceStdouts == { << TestLine("ok") >> }
RaceStderrs == { << >>, PanickedAt }

RaceInit ==
  /\ RunInit
  /\ s_pc = "start"
  /\ s_engine \in { e \in [ ContainerIds -> [ label : Labels, created : {0}, present : BOOLEAN ] ] :
                      /\ e[RunContainerId] = [ label |-> AppLabel, created |-> 0, present |-> FALSE ]
                      /\ \A id \in ContainerIds \ {RunContainerId} : e[id].present }
  /\ s_now = 0
  /\ s_list = << >>
  /\ s_i = 1
  /\ s_attempts = << >>
  /\ s_cleaned = 0
  /\ s_ret = Pending
  /\ deadline = None

\* create_container with labels app = gamified-rust-challenge: the engine
\* stamps the container with the time of its creation
RaceCreate(ok) ==
  /\ CreateContainer(ok)
  /\ s_engine' = IF ok
                 THEN [ s_engine EXCEPT ![RunContainerId] =
                          [ label |-> AppLabel, created |-> s_now, present |-> TRUE ] ]
                 ELSE s_engine
  /\ UNCHANGED << s_pc, s_now, s_list, s_i, s_attempts, s_cleaned, s_ret, deadline >>

\* start_container, then `timeout(self.config.timeout, ..)` is armed; a
\* container that is no longer in the engine cannot be started
RaceStart(ok) ==
  /\ StartContainer(ok)
  /\ ok => s_engine[RunContainerId].present
  /\ deadline' = IF ok THEN Some(s_now + Timeout) ELSE deadline
  /\ UNCHANGED sweep_vars

\* wait_stream.next().await; a container that is no longer in the engine
\* yields no exit status
RaceWait(item) ==
  /\ WaitNext(item)
  /\ item.tag = "Ok" => s_engine[RunContainerId].present
  /\ UNCHANGED << sweep_vars, deadline >>

\* the Timeout future fires when the clock has reached its deadline
RaceDeadline ==
  /\ DeadlineElapsed
  /\ IsSome(deadline)
  /\ s_now >= Unwrap(deadline)
  /\ UNCHANGED << sweep_vars, deadline >>

\* cleanup_container of the run: remove_container with force: true succeeds
\* only on a container the engine still holds
RaceCleanup(ok, removed) ==
  /\ CleanupContainer(ok, removed)
  /\ ok => s_engine[RunContainerId].present
  /\ s_engine' = IF ok THEN [ s_engine EXCEPT ![RunContainerId].present = FALSE ] ELSE s_engine
  /\ UNCHANGED << s_pc, s_now, s_list, s_i, s_attempts, s_cleaned, s_ret, deadline >>

\* cleanup_container of the sweep: a forced removal of the run's container
\* takes it from under the run
RaceRemoveReturns(ok) ==
  /\ RemoveReturns(ok)
  /\ container' = IF ok /\ s_attempts[Len(s_attempts)].id = RunContainerId
                  THEN "removed" ELSE container
  /\ UNCHANGED << pc, calls, exit_code, logs, timed_out, result, ret, work_dir, deadline >>

\* time passes; while wait_for_container is pending under the Timeout
\* future it does not pass the deadline
RaceTick(d) ==
  /\ s_now + d \in Instants
  /\ pc \in {"wait", "logs"} => s_now + d <= Unwrap(deadline)
  /\ s_now' = s_now + d
  /\ UNCHANGED << s_pc, s_engine, s_list, s_i, s_attempts, s_cleaned, s_ret, run_vars, deadline >>

RaceNext ==
  \/ \E o \in {"ok", "tempdir_failed", "prepare_failed"}, r \in BOOLEAN :
       PrepareWorkspace(o, r) /\ UNCHANGED << parse_vars, pool_vars, sweep_vars, race_vars >>
  \/ \E ok \in BOOLEAN : RaceCreate(ok) /\ UNCHANGED << parse_vars, pool_vars >>
  \/ \E ok \in BOOLEAN : RaceStart(ok) /\ UNCHANGED << parse_vars, pool_vars >>
  \/ \E i \in WaitItems : RaceWait(i) /\ UNCHANGED << parse_vars, pool_vars >>
  \/ \E so \in RaceStdouts, se \in RaceStderrs, r \in BOOLEAN :
       LogsEnd(so, se, r) /\ UNCHANGED << parse_vars, pool_vars, sweep_vars, race_vars >>
  \/ RaceDeadline /\ UNCHANGED << parse_vars, pool_vars >>
  \/ \E ok \in BOOLEAN : KillContainer(ok) /\ UNCHANGED << parse_vars, pool_vars, sweep_vars, race_vars >>
  \/ \E ok \in BOOLEAN, r \in BOOLEAN : RaceCleanup(ok, r) /\ UNCHANGED << parse_vars, pool_vars >>
  \/ \E order \in Orders(Listed) :
       ListContainers(order) /\ UNCHANGED << parse_vars, run_vars, pool_vars, race_vars >>
  \/ ListFails /\ UNCHANGED << parse_vars, run_vars, pool_vars, race_vars >>
  \/ Inspect /\ UNCHANGED << parse_vars, run_vars, pool_vars, race_vars >>
  \/ \E ok \in BOOLEAN : RaceRemoveReturns(ok) /\ UNCHANGED << parse_vars, pool_vars >>
  \/ SweepReturn /\ UNCHANGED << parse_vars, run_vars, pool_vars, race_vars >>
  \/ \E d \in Delays : RaceTick(d) /\ UNCHANGED << parse_vars, pool_vars >>

RaceSpecInit == RaceInit /\ ParseQuiet /\ PoolQuiet

SpecRace == RaceSpecInit /\ [][RaceNext]_vars

(***************************************************************************)
(* Properties of a sweep beside a run (SpecRace).                          *)
(***************************************************************************)
\* the run has created its container and has not reached its cleanup step
InFlight == pc \in {"start", "wait", "logs", "kill"}

\* C30 (as claimed): with a timeout shorter than the staleness threshold, a
\* sweep that runs beside run_verification never removes the container of a
\* run in flight: while the run is between the creation of its container
\* and its own cleanup step, the engine still holds the container.
C30_SweepSparesRunInFlight ==
  InFlight => s_engine[RunContainerId].present
====
